---- MODULE Spec2Model ----
(***************************************************************************)
(* Model of the workflow graph editor in static/script.js: the in-memory   *)
(* graph model (state.currentWorkflow, state.selectedPrompt), the handlers *)
(* that mutate it, the selection repair done by renderEditor, and the      *)
(* debounced autosave (debounce / handleStateChange / saveWorkflow).       *)
(*                                                                         *)
(* Identifiers are sequences of one-character strings, so that an id is    *)
(* built and compared character by character as in the code.  Time is in   *)
(* milliseconds.                                                           *)
(***************************************************************************)
EXTENDS Integers, Sequences, FiniteSets, TLC

VARIABLES
  currentId,        \* state.currentWorkflow.id, or NoWorkflow when it is null
  workflows,        \* state.workflows: workflow id -> name shown in the list
  name,             \* state.currentWorkflow.name
  nameInput,        \* workflowNameInput.value
  nodes,            \* config.nodes: sequence of [id, type, output_key]
  edges,            \* config.edges: sequence of [source, target, conditional]
  entry_point,      \* config.entry_point
  final_output_key, \* config.final_output_key
  prompts,          \* state.currentWorkflow.prompts: id -> text
  scripts,          \* state.currentWorkflow.scripts: id -> text
  selectedPrompt,   \* state.selectedPrompt, or Null
  now,              \* the clock (Date.now(), and the timers' time base)
  timeout,          \* debounce's closure variable: handle of its latest timer
  debounceTimers,   \* pending timers created by debounce (handle = deadline)
  clearTimers,      \* pending status-clear timers of saveWorkflow (deadlines)
  statusText,       \* statusElement.textContent
  statusColor,      \* statusElement.style.color
  inflight,         \* PUT requests issued and not yet answered
  putLog,           \* history: every PUT issued, in order
  hist,             \* history: [lastSignal, burst, putsSinceSignal]
  graphContainer,   \* graphContainer.innerHTML: what the diagram pane shows
  renders           \* mermaid.render calls of renderGraph not yet completed

vars == <<currentId, workflows, name, nameInput, nodes, edges, entry_point,
          final_output_key, prompts, scripts, selectedPrompt, now, timeout,
          debounceTimers, clearTimers, statusText, statusColor, inflight,
          putLog, hist, graphContainer, renders>>

graphVars == <<nodes, edges, entry_point, final_output_key, prompts, scripts,
               selectedPrompt>>

saveVars == <<timeout, debounceTimers, clearTimers, statusText, statusColor,
              inflight, putLog>>

viewVars == <<graphContainer, renders>>

(* The diagram pane is followed in SpecRender only: the steps of the other
   specifications, none of whose properties reads the pane, leave it as it
   is. *)
DiagramIdle == UNCHANGED viewVars

-----------------------------------------------------------------------------
(* Bounds of the model *)

MaxNodes == 2
MaxEdges == 1
MaxClock == 1
MaxBurst == 2
MaxPuts == 1
MaxTicks == 6

(* Program constants *)

DebounceWait == 2000
StatusClearWait == 4000

(* The clock of the scheduler advances in steps of half a debounce window *)

TickMs == DebounceWait \div 2
MaxTime == MaxTicks * TickMs

-----------------------------------------------------------------------------
(* Values *)

Null == <<"<null>">>
NoWorkflow == "<none>"
None == -1
EMPTY == << >>
END == <<"_", "_", "e", "n", "d", "_", "_">>
NodePrefix == <<"n", "o", "d", "e", "_">>
DefaultPrompt == ""
DefaultScript == "def main(state): ..."
DebouncedSaveFn == -2

DigitChars == <<"0", "1", "2", "3", "4", "5", "6", "7", "8", "9">>

RECURSIVE Decimal(_)
Decimal(n) ==
  IF n < 10 THEN <<DigitChars[n + 1]>>
  ELSE Decimal(n \div 10) \o <<DigitChars[(n % 10) + 1]>>

NewNodeId(t) == NodePrefix \o Decimal(t)

Min(a, b) == IF a <= b THEN a ELSE b

SetMin(S) == CHOOSE x \in S : \A y \in S : x <= y

Falsy(v) == v = Null \/ v = EMPTY

-----------------------------------------------------------------------------
(* Inputs the user can give *)

TypedIds == {EMPTY, <<"a">>}
NodeTypes == {"llm", "python", "join"}
OutputKeys == {"", "k"}
Texts == {"p"}
Names == {"v"}
WorkflowIds == {"w1"}

NodeIds == {nodes[i].id : i \in DOMAIN nodes}

NodeIdsOf(ns) == {ns[i].id : i \in DOMAIN ns}

-----------------------------------------------------------------------------
(* Map helpers (JavaScript objects used as maps) *)

Has(m, k) == k \in DOMAIN m

Put(m, k, v) == [x \in DOMAIN m \cup {k} |-> IF x = k THEN v ELSE m[x]]

Delete(m, k) == [x \in DOMAIN m \ {k} |-> m[x]]

RemoveAt(s, i) == [j \in 1..(Len(s) - 1) |-> IF j < i THEN s[j] ELSE s[j + 1]]

IsEditable(n) == n.type = "llm" \/ n.type = "python"

EditableNodes(ns) == SelectSeq(ns, IsEditable)

-----------------------------------------------------------------------------
(* renderEditor: lazy creation of prompt/script entries, selection repair *)

LazyPrompts(ns, p) ==
  LET ids == {ns[i].id : i \in {j \in DOMAIN ns : ns[j].type = "llm"}}
  IN [k \in DOMAIN p \cup ids |-> IF k \in DOMAIN p THEN p[k] ELSE DefaultPrompt]

LazyScripts(ns, s) ==
  LET ids == {ns[i].id : i \in {j \in DOMAIN ns : ns[j].type = "python"}}
  IN [k \in DOMAIN s \cup ids |-> IF k \in DOMAIN s THEN s[k] ELSE DefaultScript]

RepairSelection(ns, sel) ==
  LET ed == EditableNodes(ns)
  IN IF Falsy(sel) \/ ~(\E i \in DOMAIN ed : ed[i].id = sel)
     THEN (IF Len(ed) > 0 THEN ed[1].id ELSE Null)
     ELSE sel

RenderEditor(ns, p, s, sel) ==
  IF Len(EditableNodes(ns)) = 0
  THEN [prompts |-> p, scripts |-> s, selectedPrompt |-> sel]
  ELSE [prompts |-> LazyPrompts(ns, p),
        scripts |-> LazyScripts(ns, s),
        selectedPrompt |-> RepairSelection(ns, sel)]

(* renderAll with the model given: what it leaves in prompts, scripts and
   selectedPrompt (the rest of renderAll writes the page only) *)
RenderAll(ns, p, s, sel) ==
  IF currentId = NoWorkflow
  THEN [prompts |-> p, scripts |-> s, selectedPrompt |-> sel]
  ELSE RenderEditor(ns, p, s, sel)

-----------------------------------------------------------------------------
(* debounce, updateSaveStatus, handleStateChange *)

ClearTimeout(timers, handle) == timers \ {handle}

(* Mutant of DebounceRearm: the earlier timer is not cleared *)
DebounceRearmNoClear(timers, handle, deadline) == timers \cup {deadline}

DebounceRearm(timers, handle, deadline) ==
  ClearTimeout(timers, handle) \cup {deadline}

Signalled(h) ==
  [lastSignal |-> now,
   burst |-> IF h.lastSignal # None /\ now - h.lastSignal < DebounceWait
             THEN Min(h.burst + 1, MaxBurst)
             ELSE 1,
   putsSinceSignal |-> 0]

HandleStateChange ==
  IF currentId = NoWorkflow
  THEN UNCHANGED <<timeout, debounceTimers, statusText, statusColor, hist>>
  ELSE /\ statusText' = "changed"
       /\ statusColor' = "secondary"
       /\ debounceTimers' = DebounceRearm(debounceTimers, timeout, now + DebounceWait)
       /\ timeout' = now + DebounceWait
       /\ hist' = Signalled(hist)

-----------------------------------------------------------------------------
(* Initial state: a workflow created from newWorkflowTemplate and loaded *)

Init ==
  /\ currentId = "w1"
  /\ workflows = [w \in WorkflowIds |-> "w"]
  /\ name = "w"
  /\ nameInput = "w"
  /\ nodes = << >>
  /\ edges = << >>
  /\ entry_point = EMPTY
  /\ final_output_key = ""
  /\ prompts = << >>
  /\ scripts = << >>
  /\ selectedPrompt = Null
  /\ now = 0
  /\ timeout = None
  /\ debounceTimers = {}
  /\ clearTimers = {}
  /\ statusText = ""
  /\ statusColor = "secondary"
  /\ inflight = {}
  /\ putLog = << >>
  /\ hist = [lastSignal |-> None, burst |-> 0, putsSinceSignal |-> 0]
  /\ graphContainer = <<"placeholder">>
  /\ renders = {}

-----------------------------------------------------------------------------
(* Graph handlers *)

Rendered(ns, p, s, sel) ==
  LET r == RenderAll(ns, p, s, sel)
  IN /\ prompts' = r.prompts
     /\ scripts' = r.scripts
     /\ selectedPrompt' = r.selectedPrompt

AddNode ==
  /\ currentId # NoWorkflow
  /\ Len(nodes) < MaxNodes
  /\ LET newNodeId == NewNodeId(now)
     IN /\ nodes' = Append(nodes, [id |-> newNodeId, type |-> "llm", output_key |-> ""])
        /\ Rendered(nodes', prompts, scripts, selectedPrompt)
  /\ HandleStateChange
  /\ UNCHANGED <<currentId, workflows, name, nameInput, edges, entry_point,
                 final_output_key, now, clearTimers, inflight, putLog>>

KeepEdge(id, edge) == edge.source # id /\ edge.target # id

(* What the removal of the node at `index` leaves of a model (ns, es, p, s,
   sel): the node is spliced out, the edges naming its id are filtered out,
   its prompts and scripts keys are deleted, the selection is reset if it
   named the id, and renderAll runs *)
RemoveNodeResult(ns, es, p, s, sel, index) ==
  LET node == ns[index]
      ns2 == RemoveAt(ns, index)
      r == RenderAll(ns2, Delete(p, node.id), Delete(s, node.id),
                     IF sel = node.id THEN Null ELSE sel)
  IN [nodes |-> ns2,
      edges |-> SelectSeq(es, LAMBDA e : KeepEdge(node.id, e)),
      prompts |-> r.prompts,
      scripts |-> r.scripts,
      selectedPrompt |-> r.selectedPrompt]

RemoveNode(index) ==
  /\ currentId # NoWorkflow
  /\ IF index \notin DOMAIN nodes
     THEN UNCHANGED <<graphVars, timeout, debounceTimers, statusText,
                     statusColor, hist>>
     ELSE LET r == RemoveNodeResult(nodes, edges, prompts, scripts,
                                    selectedPrompt, index)
          IN /\ nodes' = r.nodes
             /\ edges' = r.edges
             /\ prompts' = r.prompts
             /\ scripts' = r.scripts
             /\ selectedPrompt' = r.selectedPrompt
             /\ HandleStateChange
             /\ UNCHANGED <<entry_point, final_output_key>>
  /\ UNCHANGED <<currentId, workflows, name, nameInput, now, clearTimers,
                 inflight, putLog>>

AddEdge ==
  /\ currentId # NoWorkflow
  /\ Len(edges) < MaxEdges
  /\ LET source == IF Len(nodes) > 0 THEN nodes[1].id ELSE EMPTY
         target == IF Len(nodes) > 1 THEN nodes[2].id ELSE END
     IN edges' = Append(edges, [source |-> source, target |-> target, conditional |-> FALSE])
  /\ Rendered(nodes, prompts, scripts, selectedPrompt)
  /\ HandleStateChange
  /\ UNCHANGED <<currentId, workflows, name, nameInput, nodes, entry_point,
                 final_output_key, now, clearTimers, inflight, putLog>>

RemoveEdgeAt(index) ==
  /\ currentId # NoWorkflow
  /\ index \in DOMAIN edges
  /\ edges' = RemoveAt(edges, index)
  /\ Rendered(nodes, prompts, scripts, selectedPrompt)
  /\ HandleStateChange
  /\ UNCHANGED <<currentId, workflows, name, nameInput, nodes, entry_point,
                 final_output_key, now, clearTimers, inflight, putLog>>

RenameEdge(oldId, newId, edge) ==
  [source |-> IF edge.source = oldId THEN newId ELSE edge.source,
   target |-> IF edge.target = oldId THEN newId ELSE edge.target,
   conditional |-> edge.conditional]

MoveKey(m, oldId, newId) ==
  IF Has(m, oldId) THEN Delete(Put(m, newId, m[oldId]), oldId) ELSE m

RenameNode(index, newId) ==
  /\ currentId # NoWorkflow
  /\ index \in DOMAIN nodes
  /\ LET oldId == nodes[index].id
         sel == IF selectedPrompt = oldId THEN newId ELSE selectedPrompt
     IN /\ nodes' = [nodes EXCEPT ![index].id = newId]
        /\ edges' = [i \in DOMAIN edges |-> RenameEdge(oldId, newId, edges[i])]
        /\ entry_point' = IF entry_point = oldId THEN newId ELSE entry_point
        /\ Rendered(nodes', MoveKey(prompts, oldId, newId),
                    MoveKey(scripts, oldId, newId), sel)
  /\ HandleStateChange
  /\ UNCHANGED <<currentId, workflows, name, nameInput, final_output_key, now,
                 clearTimers, inflight, putLog>>

(* Mutant of SetNodeKind: the kind is changed and the editor re-rendered
   without a change signal *)
SetNodeKindSilent(index, type) ==
  /\ currentId # NoWorkflow
  /\ index \in DOMAIN nodes
  /\ nodes' = [nodes EXCEPT ![index].type = type]
  /\ Rendered(nodes', prompts, scripts, selectedPrompt)
  /\ UNCHANGED <<currentId, workflows, name, nameInput, edges, entry_point,
                 final_output_key, now, saveVars, hist>>

SetNodeKind(index, type) ==
  /\ currentId # NoWorkflow
  /\ index \in DOMAIN nodes
  /\ nodes' = [nodes EXCEPT ![index].type = type]
  /\ Rendered(nodes', prompts, scripts, selectedPrompt)
  /\ HandleStateChange
  /\ UNCHANGED <<currentId, workflows, name, nameInput, edges, entry_point,
                 final_output_key, now, clearTimers, inflight, putLog>>

SetNodeOutputKey(index, key) ==
  /\ currentId # NoWorkflow
  /\ index \in DOMAIN nodes
  /\ nodes' = [nodes EXCEPT ![index].output_key = key]
  /\ HandleStateChange
  /\ UNCHANGED <<currentId, workflows, name, nameInput, edges, entry_point,
                 final_output_key, prompts, scripts, selectedPrompt, now,
                 clearTimers, inflight, putLog>>

SetEdgeEndpoint(index, which, id) ==
  /\ currentId # NoWorkflow
  /\ index \in DOMAIN edges
  /\ edges' = IF which = "source"
              THEN [edges EXCEPT ![index].source = id]
              ELSE [edges EXCEPT ![index].target = id]
  /\ HandleStateChange
  /\ UNCHANGED <<currentId, workflows, name, nameInput, nodes, entry_point,
                 final_output_key, prompts, scripts, selectedPrompt, now,
                 clearTimers, inflight, putLog>>

SetEdgeConditional(index, checked) ==
  /\ currentId # NoWorkflow
  /\ index \in DOMAIN edges
  /\ edges' = [edges EXCEPT ![index].conditional = checked]
  /\ HandleStateChange
  /\ UNCHANGED <<currentId, workflows, name, nameInput, nodes, entry_point,
                 final_output_key, prompts, scripts, selectedPrompt, now,
                 clearTimers, inflight, putLog>>

SetEntryPoint(id) ==
  /\ currentId # NoWorkflow
  /\ entry_point' = id
  /\ HandleStateChange
  /\ UNCHANGED <<currentId, workflows, name, nameInput, nodes, edges,
                 final_output_key, prompts, scripts, selectedPrompt, now,
                 clearTimers, inflight, putLog>>

SetFinalOutputKey(key) ==
  /\ currentId # NoWorkflow
  /\ final_output_key' = key
  /\ HandleStateChange
  /\ UNCHANGED <<currentId, workflows, name, nameInput, nodes, edges,
                 entry_point, prompts, scripts, selectedPrompt, now,
                 clearTimers, inflight, putLog>>

SelectPrompt(id) ==
  /\ currentId # NoWorkflow
  /\ LET r == RenderEditor(nodes, prompts, scripts, id)
     IN /\ prompts' = r.prompts
        /\ scripts' = r.scripts
        /\ selectedPrompt' = r.selectedPrompt
  /\ UNCHANGED <<currentId, workflows, name, nameInput, nodes, edges,
                 entry_point, final_output_key, now, saveVars, hist>>

FirstNodeWithId(id) ==
  LET S == {i \in DOMAIN nodes : nodes[i].id = id}
  IN IF S = {} THEN 0 ELSE SetMin(S)

EditText(text) ==
  /\ currentId # NoWorkflow
  /\ ~Falsy(selectedPrompt)
  /\ FirstNodeWithId(selectedPrompt) # 0
  /\ LET selectedNode == nodes[FirstNodeWithId(selectedPrompt)]
     IN /\ prompts' = IF selectedNode.type = "llm"
                      THEN Put(prompts, selectedPrompt, text) ELSE prompts
        /\ scripts' = IF selectedNode.type = "python"
                      THEN Put(scripts, selectedPrompt, text) ELSE scripts
  /\ HandleStateChange
  /\ UNCHANGED <<currentId, workflows, name, nameInput, nodes, edges,
                 entry_point, final_output_key, selectedPrompt, now,
                 clearTimers, inflight, putLog>>

NameInput(v) ==
  /\ currentId # NoWorkflow
  /\ nameInput' = v
  /\ HandleStateChange
  /\ UNCHANGED <<currentId, workflows, name, graphVars, now, clearTimers,
                 inflight, putLog>>

-----------------------------------------------------------------------------
(* Time *)

Deadlines == debounceTimers \cup clearTimers

Advance(d) ==
  /\ \A t \in Deadlines : t > now
  /\ now' = IF Deadlines = {} THEN now + d ELSE Min(now + d, SetMin(Deadlines))
  /\ UNCHANGED <<currentId, workflows, name, nameInput, graphVars, saveVars, hist>>

ClockTick ==
  /\ now < MaxClock
  /\ Advance(1)

-----------------------------------------------------------------------------
(* The graph editor: the handlers that change which nodes and edges exist,
   what they are called and of which kind they are, which node is the entry
   point and which text is edited, within MaxClock milliseconds (no timer can
   be due that early) *)

EditableIds == NodeIdsOf(EditableNodes(nodes))

TextareaEnabled == Len(EditableNodes(nodes)) > 0 /\ ~Falsy(selectedPrompt)

RenameInputs == TypedIds \cup NodeIds \cup {NewNodeId(now)}

NextGraph ==
  \/ AddNode /\ DiagramIdle
  \/ \E i \in 1..(Len(nodes) + 1) : RemoveNode(i) /\ DiagramIdle
  \/ AddEdge /\ DiagramIdle
  \/ \E i \in DOMAIN edges : RemoveEdgeAt(i) /\ DiagramIdle
  \/ \E i \in DOMAIN nodes : \E newId \in RenameInputs : RenameNode(i, newId) /\ DiagramIdle
  \/ \E i \in DOMAIN nodes : \E t \in NodeTypes : SetNodeKind(i, t) /\ DiagramIdle
  \/ \E i \in DOMAIN edges : \E id \in NodeIds : SetEdgeEndpoint(i, "source", id) /\ DiagramIdle
  \/ \E i \in DOMAIN edges : \E id \in NodeIds \cup {END} : SetEdgeEndpoint(i, "target", id) /\ DiagramIdle
  \/ \E id \in NodeIds : SetEntryPoint(id) /\ DiagramIdle
  \/ \E id \in EditableIds : SelectPrompt(id) /\ DiagramIdle
  \/ (TextareaEnabled /\ \E text \in Texts : EditText(text)) /\ DiagramIdle
  \/ ClockTick /\ DiagramIdle

SpecGraph == Init /\ [][NextGraph]_vars

(* The field editors: the handlers that change a node's output key and an
   edge's conditional flag, on the graphs addNode and addEdge build *)

NextFields ==
  \/ AddNode /\ DiagramIdle
  \/ AddEdge /\ DiagramIdle
  \/ \E i \in DOMAIN nodes : \E k \in OutputKeys : SetNodeOutputKey(i, k) /\ DiagramIdle
  \/ \E i \in DOMAIN edges : \E c \in BOOLEAN : SetEdgeConditional(i, c) /\ DiagramIdle
  \/ \E i \in DOMAIN nodes : \E t \in NodeTypes : SetNodeKind(i, t) /\ DiagramIdle
  \/ ClockTick /\ DiagramIdle

SpecFields == Init /\ [][NextFields]_vars

-----------------------------------------------------------------------------
(* saveWorkflow: the part up to the await (the PUT is issued), the part after
   it (the response has landed), and the status-clear timer it leaves *)

(* Mutant of Payload: a partial update that leaves the texts out *)
PayloadConfigOnly ==
  [name |-> nameInput,
   config |-> [entry_point |-> entry_point, final_output_key |-> final_output_key,
               nodes |-> nodes, edges |-> edges],
   prompts |-> << >>,
   scripts |-> << >>]

Payload ==
  [name |-> nameInput,
   config |-> [entry_point |-> entry_point, final_output_key |-> final_output_key,
               nodes |-> nodes, edges |-> edges],
   prompts |-> prompts,
   scripts |-> scripts]

ListedName(id) == IF id \in DOMAIN workflows THEN workflows[id] ELSE "<undefined>"

(* saveWorkflow called by `by` ("manual": the save button, "timer": debounce's
   later), with `timers` the debounce timers pending at the call *)
SaveWorkflow(by, timers) ==
  IF currentId = NoWorkflow
  THEN /\ debounceTimers' = timers
       /\ UNCHANGED <<name, statusText, statusColor, inflight, putLog, hist>>
  ELSE /\ debounceTimers' = ClearTimeout(timers, DebouncedSaveFn)
       /\ statusText' = "saving"
       /\ statusColor' = "secondary"
       /\ name' = nameInput
       /\ putLog' = Append(putLog, [at |-> now, by |-> by, id |-> currentId,
                                    after |-> hist.lastSignal, burst |-> hist.burst,
                                    prior |-> hist.putsSinceSignal,
                                    payload |-> Payload])
       /\ inflight' = inflight \cup {[seq |-> Len(putLog) + 1,
                                      oldName |-> ListedName(currentId),
                                      newName |-> nameInput]}
       /\ hist' = [hist EXCEPT !.putsSinceSignal = @ + 1]

ManualSave ==
  /\ Len(putLog) < MaxPuts
  /\ SaveWorkflow("manual", debounceTimers)
  /\ UNCHANGED <<currentId, workflows, nameInput, graphVars, now, timeout,
                 clearTimers>>

(* debounce's later: the timer with deadline t fires *)
DebounceFire(t) ==
  /\ t \in debounceTimers
  /\ t <= now
  /\ SaveWorkflow("timer", ClearTimeout(debounceTimers \ {t}, timeout))
  /\ UNCHANGED <<currentId, workflows, nameInput, graphVars, now, timeout,
                 clearTimers>>

(* Mutant of SaveResponse: only the response to the request issued last sets
   the status *)
SaveResponseLatestOnly(r, ok) ==
  /\ r \in inflight
  /\ inflight' = inflight \ {r}
  /\ IF r.seq = Len(putLog)
     THEN /\ statusText' = IF ok THEN "saved" ELSE "failed"
          /\ statusColor' = IF ok THEN "success" ELSE "danger"
     ELSE UNCHANGED <<statusText, statusColor>>
  /\ clearTimers' = clearTimers \cup {now + StatusClearWait}
  /\ UNCHANGED <<currentId, workflows, name, nameInput, graphVars, now, timeout,
                 debounceTimers, putLog, hist>>

SaveResponse(r, ok) ==
  /\ r \in inflight
  /\ inflight' = inflight \ {r}
  /\ IF ok
     THEN IF r.oldName # r.newName /\ currentId = NoWorkflow
          THEN /\ statusText' = "failed"
               /\ statusColor' = "danger"
               /\ UNCHANGED workflows
          ELSE /\ statusText' = "saved"
               /\ statusColor' = "success"
               /\ workflows' = IF r.oldName # r.newName /\ currentId \in DOMAIN workflows
                               THEN [workflows EXCEPT ![currentId] = r.newName]
                               ELSE workflows
     ELSE /\ statusText' = "failed"
          /\ statusColor' = "danger"
          /\ UNCHANGED workflows
  /\ clearTimers' = clearTimers \cup {now + StatusClearWait}
  /\ UNCHANGED <<currentId, name, nameInput, graphVars, now, timeout,
                 debounceTimers, putLog, hist>>

(* Mutant of StatusClearFire: the status is cleared whatever its colour *)
StatusClearFireUnguarded(t) ==
  /\ t \in clearTimers
  /\ t <= now
  /\ clearTimers' = clearTimers \ {t}
  /\ statusText' = ""
  /\ statusColor' = "secondary"
  /\ UNCHANGED <<currentId, workflows, name, nameInput, graphVars, now, timeout,
                 debounceTimers, inflight, putLog, hist>>

StatusClearFire(t) ==
  /\ t \in clearTimers
  /\ t <= now
  /\ clearTimers' = clearTimers \ {t}
  /\ IF statusColor # "danger"
     THEN /\ statusText' = ""
          /\ statusColor' = "secondary"
     ELSE UNCHANGED <<statusText, statusColor>>
  /\ UNCHANGED <<currentId, workflows, name, nameInput, graphVars, now, timeout,
                 debounceTimers, inflight, putLog, hist>>

Tick ==
  /\ now < MaxTime
  /\ Advance(TickMs)

-----------------------------------------------------------------------------
(* The autosave scheduler: change signals, the debounce timer, manual saves,
   responses and status-clear timers, up to MaxTime *)

FinalKeys == {"f"}

NextSave ==
  \/ \E v \in Names : NameInput(v) /\ DiagramIdle
  \/ \E k \in FinalKeys : SetFinalOutputKey(k) /\ DiagramIdle
  \/ ManualSave /\ DiagramIdle
  \/ \E t \in debounceTimers : DebounceFire(t) /\ DiagramIdle
  \/ \E r \in inflight : \E ok \in BOOLEAN : SaveResponse(r, ok) /\ DiagramIdle
  \/ \E t \in clearTimers : StatusClearFire(t) /\ DiagramIdle
  \/ Tick /\ DiagramIdle

SpecSave == Init /\ [][NextSave]_vars

(* The same with no manual save: change signals and the debounce timer only *)

NextDebounce ==
  \/ \E v \in Names : NameInput(v) /\ DiagramIdle
  \/ \E k \in FinalKeys : SetFinalOutputKey(k) /\ DiagramIdle
  \/ \E t \in debounceTimers : DebounceFire(t) /\ DiagramIdle
  \/ \E r \in inflight : \E ok \in BOOLEAN : SaveResponse(r, ok) /\ DiagramIdle
  \/ \E t \in clearTimers : StatusClearFire(t) /\ DiagramIdle
  \/ Tick /\ DiagramIdle

SpecDebounce == Init /\ [][NextDebounce]_vars

-----------------------------------------------------------------------------
(* Properties of the autosave scheduler *)

NoManualSave == \A i \in DOMAIN putLog : putLog[i].by = "timer"

(* C6: with no manual save, a burst of change signals, each less than
   DebounceWait after the previous one, yields exactly one PUT, issued one
   full DebounceWait after the last signal and not earlier: no PUT exists
   while the window of the last signal is still open, one exists once it has
   elapsed, never more than one, and every PUT was issued at least
   DebounceWait after the signal that preceded it. *)
C6_OneSavePerBurst ==
  NoManualSave =>
    /\ hist.putsSinceSignal <= 1
    /\ (hist.lastSignal # None /\ now < hist.lastSignal + DebounceWait)
         => hist.putsSinceSignal = 0
    /\ (hist.lastSignal # None /\ now > hist.lastSignal + DebounceWait)
         => hist.putsSinceSignal = 1
    /\ (hist.lastSignal # None /\ now = hist.lastSignal + DebounceWait)
         => hist.putsSinceSignal = (IF debounceTimers = {} THEN 1 ELSE 0)
    /\ \A i \in DOMAIN putLog :
         /\ putLog[i].after # None
         /\ putLog[i].at >= putLog[i].after + DebounceWait
         /\ putLog[i].prior = 0

(* Witness of C6: a burst of at least two signals was followed by its one PUT *)
C6_Witness ==
  /\ NoManualSave
  /\ \E i \in DOMAIN putLog : putLog[i].burst >= 2 /\ putLog[i].at > DebounceWait
  /\ hist.putsSinceSignal = 1

(* C7: a manual save issued while the debounce timer is pending cancels the
   timer: the timer issues no PUT unless a new change signal came after the
   last PUT (every PUT issued by the timer is the first since its signal). *)
C7_ManualSaveCancelsTimer ==
  \A i \in DOMAIN putLog : putLog[i].by = "timer" => putLog[i].prior = 0

-----------------------------------------------------------------------------
(* Properties of the graph model *)

(* C1: every edge's source is the id of a node in config.nodes and its target
   is such an id or the END sentinel, after every operation. *)
C1_EdgesReferenceNodes ==
  \A i \in DOMAIN edges :
    /\ edges[i].source \in NodeIds
    /\ edges[i].target \in NodeIds \cup {END}

(* C2: config.entry_point is empty or the id of a node in config.nodes after
   every operation; removing the entry node leaves it cleared. *)
C2_EntryPointReferencesNode ==
  entry_point = EMPTY \/ entry_point \in NodeIds

(* C3: a step renameNode(A, B) with B non-empty and B # A leaves the node
   with id B, the same number and order of edges with every endpoint A now B
   and the others unchanged, entry_point B if it was A, the prompts and
   scripts entries of A under B with the same text and no key A, and
   selectedPrompt B if it was A. *)
C3_RenameRebindsAll ==
  [][\A i \in 1..MaxNodes : \A B \in RenameInputs :
       (i \in DOMAIN nodes /\ B # EMPTY /\ B # nodes[i].id /\ RenameNode(i, B))
       => LET A == nodes[i].id
          IN /\ nodes' = [nodes EXCEPT ![i].id = B]
             /\ Len(edges') = Len(edges)
             /\ \A k \in DOMAIN edges :
                  /\ edges'[k].source = (IF edges[k].source = A THEN B ELSE edges[k].source)
                  /\ edges'[k].target = (IF edges[k].target = A THEN B ELSE edges[k].target)
                  /\ edges'[k].conditional = edges[k].conditional
             /\ entry_point' = (IF entry_point = A THEN B ELSE entry_point)
             /\ Has(prompts, A) => (/\ Has(prompts', B)
                                    /\ prompts'[B] = prompts[A]
                                    /\ ~Has(prompts', A))
             /\ Has(scripts, A) => (/\ Has(scripts', B)
                                    /\ scripts'[B] = scripts[A]
                                    /\ ~Has(scripts', A))
             /\ (selectedPrompt = A) => (selectedPrompt' = B)]_vars

(* C4: a step removeNode(A) removes the node, removes exactly the edges with
   source or target A (the others stay, in order, unchanged), leaves no key A
   in prompts or scripts, and leaves selectedPrompt different from A if it
   was A; removeNode of an absent node changes nothing. *)
C4_RemoveCascades ==
  [][\A i \in 1..(MaxNodes + 1) :
       RemoveNode(i)
       => IF i \in DOMAIN nodes
          THEN LET A == nodes[i].id
               IN /\ nodes' = RemoveAt(nodes, i)
                  /\ edges' = SelectSeq(edges, LAMBDA e : e.source # A /\ e.target # A)
                  /\ ~Has(prompts', A)
                  /\ ~Has(scripts', A)
                  /\ (selectedPrompt = A) => (selectedPrompt' # A)
          ELSE UNCHANGED vars]_vars

(* C5: node ids are pairwise distinct in every reachable state. *)
C5_NodeIdsDistinct ==
  \A i, j \in DOMAIN nodes : i # j => nodes[i].id # nodes[j].id

(* C8: a step renameNode(oldId, "") is rejected and leaves the whole model
   unchanged: no id, edge endpoint, entry_point, prompts or scripts key or
   selectedPrompt becomes the empty string. *)
C8_EmptyRenameRejected ==
  [][\A i \in 1..MaxNodes :
       (i \in DOMAIN nodes /\ RenameNode(i, EMPTY)) => UNCHANGED graphVars]_vars

(* C9: a step addNode appends exactly one node, with empty output key, whose
   id differs from the id of every node already in the workflow. *)
C9_AddNodeFreshId ==
  [][AddNode
       => /\ Len(nodes') = Len(nodes) + 1
          /\ SubSeq(nodes', 1, Len(nodes)) = nodes
          /\ nodes'[Len(nodes')].output_key = ""
          /\ nodes'[Len(nodes')].id \notin NodeIds]_vars

(* C10: every key of prompts is the id of a present node of kind llm and
   every key of scripts is the id of a present node of kind python, after
   every operation. *)
C10_TextKeysMatchKinds ==
  /\ \A k \in DOMAIN prompts :
       \E i \in DOMAIN nodes : nodes[i].id = k /\ nodes[i].type = "llm"
  /\ \A k \in DOMAIN scripts :
       \E i \in DOMAIN nodes : nodes[i].id = k /\ nodes[i].type = "python"

(* C11: a collision of ids introduced by renameNode loses no edge, prompt or
   script of the other node: when a renameNode step gives node i the id B of
   another node j (ids non-empty and pairwise distinct before the step), removing node i
   from the resulting model keeps every edge that was incident to j and not
   to i before the step, and keeps the prompt and the script that j had. *)
C11_CollisionLosesNoEdge ==
  [][\A i, j \in 1..MaxNodes :
       (/\ i \in DOMAIN nodes /\ j \in DOMAIN nodes /\ i # j
        /\ C5_NodeIdsDistinct
        /\ nodes[i].id # EMPTY /\ nodes[j].id # EMPTY
        /\ RenameNode(i, nodes[j].id))
       => LET A == nodes[i].id
              B == nodes[j].id
              r == RemoveNodeResult(nodes', edges', prompts', scripts',
                                    selectedPrompt', i)
          IN /\ \A k \in DOMAIN edges :
                  (/\ edges[k].source = B \/ edges[k].target = B
                   /\ edges[k].source # A /\ edges[k].target # A)
                  => \E m \in DOMAIN r.edges : r.edges[m] = edges[k]
             /\ (Has(prompts, B) /\ ~Has(prompts, A))
                  => (Has(r.prompts, B) /\ r.prompts[B] = prompts[B])
             /\ (Has(scripts, B) /\ ~Has(scripts, A))
                  => (Has(r.scripts, B) /\ r.scripts[B] = scripts[B])]_vars

-----------------------------------------------------------------------------
(* Properties of the save status *)

(* C12: entering DIRTY cancels the status decay: when the status shows the
   change notification of a signal that no PUT has followed yet, a firing
   status-clear timer of an earlier save leaves that status in place. *)
C12_DirtyCancelsDecay ==
  [][\A t \in clearTimers :
       (/\ statusText = "changed"
        /\ hist.lastSignal # None /\ hist.putsSinceSignal = 0
        /\ StatusClearFire(t))
       => statusText' = "changed"]_vars

(* C13: a failed persistence call leaves the status FAILED with the error
   message, no status-clear timer changes a FAILED status, and a FAILED status
   is only ever replaced by the change notification or by the status of a
   save (never by the empty status). *)
C13_FailedStatusRetained ==
  [][/\ \A r \in inflight :
          SaveResponse(r, FALSE) => (statusText' = "failed" /\ statusColor' = "danger")
     /\ \A t \in clearTimers :
          (statusColor = "danger" /\ StatusClearFire(t))
          => UNCHANGED <<statusText, statusColor>>
     /\ (statusText = "failed" /\ statusText' # "failed")
          => statusText' \in {"changed", "saving", "saved"}]_vars

(* Witness of C13: a save failed, every status-clear timer has fired since,
   and the status is still FAILED *)
C13_Witness ==
  /\ Len(putLog) >= 1
  /\ inflight = {}
  /\ clearTimers = {}
  /\ now >= StatusClearWait
  /\ statusText = "failed"
  /\ statusColor = "danger"

-----------------------------------------------------------------------------
(* Editing and saving: a few edits of the graph, of a text and of the name,
   and the PUT requests that the manual save and the debounced autosave
   issue, for one debounce window *)

NextEditSave ==
  \/ AddNode /\ DiagramIdle
  \/ AddEdge /\ DiagramIdle
  \/ (TextareaEnabled /\ \E text \in Texts : EditText(text)) /\ DiagramIdle
  \/ \E v \in Names : NameInput(v) /\ DiagramIdle
  \/ ManualSave /\ DiagramIdle
  \/ \E t \in debounceTimers : DebounceFire(t) /\ DiagramIdle
  \/ (now < DebounceWait /\ Tick) /\ DiagramIdle

SpecEditSave == Init /\ [][NextEditSave]_vars

(* C14: every PUT issued by saveWorkflow targets the current workflow's id
   and carries exactly the fields name, config, prompts and scripts (no files
   list), each with the whole current value at the moment of the call: the
   name of the name field, the entry point, the final output key, all nodes
   and all edges, and all prompts and scripts. *)
C14_PayloadIsWholeWorkflow ==
  [][Len(putLog') > Len(putLog)
       => LET call == putLog'[Len(putLog')]
          IN /\ Len(putLog') = Len(putLog) + 1
             /\ call.id = currentId
             /\ DOMAIN call.payload = {"name", "config", "prompts", "scripts"}
             /\ call.payload.name = nameInput
             /\ call.payload.name = name'
             /\ DOMAIN call.payload.config =
                  {"entry_point", "final_output_key", "nodes", "edges"}
             /\ call.payload.config.entry_point = entry_point
             /\ call.payload.config.final_output_key = final_output_key
             /\ call.payload.config.nodes = nodes
             /\ call.payload.config.edges = edges
             /\ call.payload.prompts = prompts
             /\ call.payload.scripts = scripts]_vars

(* Witness of C14: the autosave timer issued a PUT of a workflow with a
   renamed name, a node, an edge and an edited prompt *)
C14_Witness ==
  \E i \in DOMAIN putLog :
    /\ putLog[i].by = "timer"
    /\ putLog[i].payload.name \in Names
    /\ Len(putLog[i].payload.config.nodes) >= 1
    /\ Len(putLog[i].payload.config.edges) >= 1
    /\ \E k \in DOMAIN putLog[i].payload.prompts :
         putLog[i].payload.prompts[k] \in Texts

-----------------------------------------------------------------------------
(* loadWorkflowDetail, at the moment the response to its GET has landed:
   `data` is the copy the server returned when ok, and the failure path runs
   showEmptyState.  The server holds the template the workflow was created
   from or the body of a PUT it has received. *)

NewWorkflowTemplate(n) ==
  [name |-> n,
   config |-> [entry_point |-> EMPTY, final_output_key |-> "",
               nodes |-> << >>, edges |-> << >>],
   prompts |-> << >>,
   scripts |-> << >>]

ServerCopies(workflowId) ==
  {NewWorkflowTemplate("w")}
    \cup {putLog[i].payload : i \in {j \in DOMAIN putLog : putLog[j].id = workflowId}}

ShowEmptyState ==
  /\ currentId' = NoWorkflow
  /\ name' = ""
  /\ nodes' = << >>
  /\ edges' = << >>
  /\ entry_point' = EMPTY
  /\ final_output_key' = ""
  /\ prompts' = << >>
  /\ scripts' = << >>

LoadWorkflowDetail(workflowId, ok, data) ==
  /\ IF ok
     THEN /\ currentId' = workflowId
          /\ name' = data.name
          /\ nameInput' = data.name
          /\ nodes' = data.config.nodes
          /\ edges' = data.config.edges
          /\ entry_point' = data.config.entry_point
          /\ final_output_key' = data.config.final_output_key
          /\ LET r == RenderEditor(data.config.nodes, data.prompts, data.scripts, Null)
             IN /\ prompts' = r.prompts
                /\ scripts' = r.scripts
                /\ selectedPrompt' = r.selectedPrompt
          /\ statusText' = ""
          /\ statusColor' = "secondary"
     ELSE /\ ShowEmptyState
          /\ UNCHANGED <<nameInput, selectedPrompt, statusText, statusColor>>
  /\ UNCHANGED <<workflows, now, timeout, debounceTimers, clearTimers, inflight,
                 putLog, hist>>

(* The editing session within MaxClock milliseconds: every handler that edits the model
   (the row handlers acting on the first row of their list), the selection of
   the text to edit and the (re)load of the workflow *)

FirstRow(list) == {i \in DOMAIN list : i = 1}

NextEdit ==
  \/ AddNode /\ DiagramIdle
  \/ \E i \in DOMAIN nodes : RemoveNode(i) /\ DiagramIdle
  \/ AddEdge /\ DiagramIdle
  \/ \E i \in DOMAIN edges : RemoveEdgeAt(i) /\ DiagramIdle
  \/ \E i \in FirstRow(nodes) : \E newId \in TypedIds \ {EMPTY} : RenameNode(i, newId) /\ DiagramIdle
  \/ \E i \in FirstRow(nodes) : \E t \in NodeTypes : SetNodeKind(i, t) /\ DiagramIdle
  \/ \E i \in FirstRow(nodes) : \E k \in OutputKeys : SetNodeOutputKey(i, k) /\ DiagramIdle
  \/ \E i \in FirstRow(edges) : \E id \in NodeIds : SetEdgeEndpoint(i, "source", id) /\ DiagramIdle
  \/ \E i \in FirstRow(edges) : \E id \in NodeIds \cup {END} : SetEdgeEndpoint(i, "target", id) /\ DiagramIdle
  \/ \E i \in FirstRow(edges) : \E c \in BOOLEAN : SetEdgeConditional(i, c) /\ DiagramIdle
  \/ \E id \in NodeIds : SetEntryPoint(id) /\ DiagramIdle
  \/ \E k \in FinalKeys : SetFinalOutputKey(k) /\ DiagramIdle
  \/ \E id \in EditableIds : SelectPrompt(id) /\ DiagramIdle
  \/ (TextareaEnabled /\ \E text \in Texts : EditText(text)) /\ DiagramIdle
  \/ \E v \in Names : NameInput(v) /\ DiagramIdle
  \/ \E id \in WorkflowIds : \E ok \in BOOLEAN : \E data \in ServerCopies(id) :
       LoadWorkflowDetail(id, ok, data) /\ DiagramIdle
  \/ ClockTick /\ DiagramIdle

SpecEdit == Init /\ [][NextEdit]_vars

EntriesComplete ==
  \A i \in DOMAIN nodes :
    /\ nodes[i].type = "llm" => Has(prompts, nodes[i].id)
    /\ nodes[i].type = "python" => Has(scripts, nodes[i].id)

(* C15: every step that changes the nodes, the edges, the entry point, the
   final output key, the name field, the prompts or the scripts of the
   current workflow signals the change: after it the debounce timer is
   pending, due one DebounceWait later, and the status shows the change
   notification.  This covers the default prompt/script entries created
   lazily by renderEditor: every editable node has its entry after every
   step, and a load installs the server's prompts and scripts as they are. *)
C15_EveryChangeSignals ==
  [][/\ (/\ <<nodes, edges, entry_point, final_output_key, nameInput, prompts, scripts>>'
              # <<nodes, edges, entry_point, final_output_key, nameInput, prompts, scripts>>
         /\ ~(\E id \in WorkflowIds : \E ok \in BOOLEAN : \E data \in ServerCopies(id) :
                LoadWorkflowDetail(id, ok, data)))
        => /\ timeout' = now + DebounceWait
           /\ timeout' \in debounceTimers'
           /\ hist'.lastSignal = now
           /\ statusText' = "changed"
     /\ \A id \in WorkflowIds : \A data \in ServerCopies(id) :
          LoadWorkflowDetail(id, TRUE, data)
          => (prompts' = data.prompts /\ scripts' = data.scripts)
     /\ EntriesComplete']_vars

(* Witness of C15: a node became a python node after the clock moved, its
   default script was created lazily, and the debounce timer is pending *)
C15_Witness ==
  /\ now > 0
  /\ \E i \in DOMAIN nodes :
       /\ nodes[i].type = "python"
       /\ Has(scripts, nodes[i].id)
       /\ scripts[nodes[i].id] = DefaultScript
  /\ timeout = now + DebounceWait
  /\ timeout \in debounceTimers
  /\ statusText = "changed"

-----------------------------------------------------------------------------
(* Saving and (re)loading: a few edits, the save button with the response to
   its PUT, and the (re)load of the workflow from the copies the server can
   hold *)

NextLoad ==
  \/ AddNode /\ DiagramIdle
  \/ AddEdge /\ DiagramIdle
  \/ (TextareaEnabled /\ \E text \in Texts : EditText(text)) /\ DiagramIdle
  \/ ManualSave /\ DiagramIdle
  \/ \E r \in inflight : \E ok \in BOOLEAN : SaveResponse(r, ok) /\ DiagramIdle
  \/ \E id \in WorkflowIds : \E ok \in BOOLEAN : \E data \in ServerCopies(id) :
       LoadWorkflowDetail(id, ok, data) /\ DiagramIdle

SpecLoad == Init /\ [][NextLoad]_vars

(* C16: a failure leaves the loaded in-memory workflow as it was: a step in
   which a save fails or a workflow-detail (re)load fails changes neither
   which workflow is loaded nor its name, nodes, edges, entry point, final
   output key, prompts or scripts. *)
C16_FailureKeepsModel ==
  [][(\/ \E r \in inflight : SaveResponse(r, FALSE)
      \/ \E id \in WorkflowIds : \E data \in ServerCopies(id) :
           LoadWorkflowDetail(id, FALSE, data))
       => UNCHANGED <<currentId, name, nodes, edges, entry_point,
                      final_output_key, prompts, scripts>>]_vars

-----------------------------------------------------------------------------
(* Renaming around the END sentinel: nodes and edges are added, a node is
   renamed (the sentinel's text among the names typed), an edge is re-pointed *)

SentinelInputs == {END, <<"a">>}

NextSentinel ==
  \/ AddNode /\ DiagramIdle
  \/ AddEdge /\ DiagramIdle
  \/ \E i \in DOMAIN nodes : \E newId \in SentinelInputs : RenameNode(i, newId) /\ DiagramIdle
  \/ \E i \in DOMAIN edges : \E id \in NodeIds \cup {END} : SetEdgeEndpoint(i, "target", id) /\ DiagramIdle
  \/ \E i \in DOMAIN nodes : RemoveNode(i) /\ DiagramIdle
  \/ ClockTick /\ DiagramIdle

SpecSentinel == Init /\ [][NextSentinel]_vars

(* C17: renameNode never rewrites the END sentinel: every edge whose target
   is END keeps that target across every renameNode step, and no node ever
   has the sentinel as its id. *)
C17_SentinelNeverRewritten ==
  [][/\ \A i \in 1..MaxNodes : \A newId \in SentinelInputs :
          (i \in DOMAIN nodes /\ RenameNode(i, newId))
          => \A k \in DOMAIN edges :
               edges[k].target = END => edges'[k].target = END
     /\ \A i \in DOMAIN nodes' : nodes'[i].id # END]_vars

-----------------------------------------------------------------------------
(* Properties of the editor selection and of the diagram *)

(* C18: after the re-render that follows every mutation, selectedPrompt is
   the id of a node of kind llm or python present in the workflow, and it is
   null whenever there is no such node (as after the only editable node has
   been made a join node). *)
C18_SelectionIsEditable ==
  IF Len(EditableNodes(nodes)) = 0
  THEN selectedPrompt = Null
  ELSE selectedPrompt \in EditableIds

-----------------------------------------------------------------------------
(* renderGraph.  The diagram text is a sequence of lines; a line is a
   sequence whose elements are the characters embedded from an id (strings of
   one character) and the literal pieces of diagram syntax written by
   renderGraph (strings of several characters, the quotes that delimit a
   label among them).  Every handler that changes the nodes, the edges or the
   entry point calls renderGraph on the result, so the last projection is
   that of the current config. *)

QUOTE == "\""

QuotePlaceholder == <<"#", "q", "u", "o", "t", ";">>

RECURSIVE ReplaceQuotes(_)
ReplaceQuotes(id) ==
  IF id = << >> THEN << >>
  ELSE (IF Head(id) = QUOTE THEN QuotePlaceholder ELSE <<Head(id)>>)
         \o ReplaceQuotes(Tail(id))

NodeStatements(node) ==
  LET nodeId == ReplaceQuotes(node.id)
      nodeLabel == node.id \o <<"<br/><i>(", node.type, ")</i>">>
  IN IF node.type = "python"
     THEN << <<"  ">> \o nodeId \o <<"[\"">> \o nodeLabel \o <<"\"]">>,
             <<"  style ">> \o nodeId \o <<" fill:#fff0e6,stroke:#ff9933,stroke-width:2px">> >>
     ELSE IF node.type = "join"
     THEN << <<"  ">> \o nodeId \o <<"{\"">> \o nodeLabel \o <<"\"}">> >>
     ELSE << <<"  ">> \o nodeId \o <<"[\"">> \o nodeLabel \o <<"\"]">> >>

(* the arrow of a conditional edge carries a fixed label, written "cond" here *)
EdgeStatement(edge) ==
  <<"  ">> \o ReplaceQuotes(edge.source)
    \o <<IF edge.conditional THEN " -- cond --> " ELSE " --> ">>
    \o ReplaceQuotes(edge.target)

RECURSIVE NodeLines(_)
NodeLines(ns) ==
  IF ns = << >> THEN << >> ELSE NodeStatements(Head(ns)) \o NodeLines(Tail(ns))

GraphDefinition(ns, es, ep) ==
  << <<"graph TD">> >>
    \o NodeLines(ns)
    \o (IF ep # EMPTY
        THEN << <<"  style ">> \o ep \o <<" fill:#e9f7ef,stroke:#27ae60,stroke-width:2px">> >>
        ELSE << >>)
    \o [k \in DOMAIN es |-> EdgeStatement(es[k])]

(* Mutant of RenderGraph: the diagram engine is called whatever the nodes *)
RenderGraphAlways(ns, es, ep) ==
  [engineCalled |-> TRUE,
   definition |-> GraphDefinition(ns, es, ep),
   container |-> "engine output"]

RenderGraph(ns, es, ep) ==
  IF Len(ns) = 0
  THEN [engineCalled |-> FALSE,
        definition |-> GraphDefinition(ns, es, ep),
        container |-> "placeholder"]
  ELSE [engineCalled |-> TRUE,
        definition |-> GraphDefinition(ns, es, ep),
        container |-> "engine output"]

Projection == RenderGraph(nodes, edges, entry_point)

(* The diagram editor at one instant: the handlers that decide what is
   projected (the kind being changed on the first row), with a quote among
   the characters typed into an id *)

QuotedIds == {<<"a", QUOTE>>, <<"b">>}

NextDiagram ==
  \/ AddNode /\ DiagramIdle
  \/ \E i \in DOMAIN nodes : RemoveNode(i) /\ DiagramIdle
  \/ AddEdge /\ DiagramIdle
  \/ \E i \in DOMAIN nodes : \E newId \in QuotedIds : RenameNode(i, newId) /\ DiagramIdle
  \/ \E i \in FirstRow(nodes) : \E t \in NodeTypes : SetNodeKind(i, t) /\ DiagramIdle
  \/ \E id \in NodeIds : SetEntryPoint(id) /\ DiagramIdle

SpecDiagram == Init /\ [][NextDiagram]_vars

(* C19: projecting a workflow with zero nodes yields the empty-state
   placeholder and never calls the diagram engine, whatever the edges and the
   entry point are. *)
C19_NoNodesNoEngine ==
  Len(nodes) = 0
    => (Projection.container = "placeholder" /\ ~Projection.engineCalled)

(* Witness of C19: a workflow with zero nodes, a dangling edge and a stale
   entry point is projected *)
C19_Witness ==
  /\ Len(nodes) = 0
  /\ Len(edges) > 0
  /\ entry_point # EMPTY
  /\ Projection.container = "placeholder"

(* C20: when a node id contains a double quote, the diagram text contains no
   raw quote character that comes from an id: not in the statement's node
   name, not in its label, not in the entry-point style statement and not in
   an edge statement. *)
C20_QuotesEscaped ==
  (\E i \in DOMAIN nodes : \E c \in DOMAIN nodes[i].id : nodes[i].id[c] = QUOTE)
    => \A l \in DOMAIN Projection.definition :
         \A c \in DOMAIN Projection.definition[l] :
           Projection.definition[l][c] # QUOTE

-----------------------------------------------------------------------------
(* The statements of the diagram text, told apart by the piece of diagram
   syntax they carry *)

EntryStyle == " fill:#e9f7ef,stroke:#27ae60,stroke-width:2px"

IsShape(line) == \E c \in DOMAIN line : line[c] \in {"[\"", "{\""}

IsConnector(line) == \E c \in DOMAIN line : line[c] \in {" --> ", " -- cond --> "}

IsHighlight(line) == \E c \in DOMAIN line : line[c] = EntryStyle

(* C21: in the diagram text handed to the engine, each node has one shape
   statement, in array order; each edge has exactly one connector statement,
   in array order, labelled iff the edge is conditional; one highlight
   statement is emitted for the node whose id is the entry point, after all
   shape statements and before the connector statements; and no highlight
   statement is emitted when no node matches the entry point. *)
C21_ProjectionShape ==
  LET def == Projection.definition
      shapes == SelectSeq(def, IsShape)
      connectors == SelectSeq(def, IsConnector)
      S == {l \in DOMAIN def : IsShape(def[l])}
      E == {l \in DOMAIN def : IsConnector(def[l])}
      H == {l \in DOMAIN def : IsHighlight(def[l])}
      matches == {i \in DOMAIN nodes : nodes[i].id = entry_point}
  IN Projection.engineCalled =>
       /\ Len(shapes) = Len(nodes)
       /\ \A k \in DOMAIN nodes :
            LET nodeId == ReplaceQuotes(nodes[k].id)
            IN SubSeq(shapes[k], 1, 1 + Len(nodeId)) = <<"  ">> \o nodeId
       /\ Len(connectors) = Len(edges)
       /\ \A k \in DOMAIN edges :
            /\ SubSeq(connectors[k], 1, 1 + Len(ReplaceQuotes(edges[k].source)))
                 = <<"  ">> \o ReplaceQuotes(edges[k].source)
            /\ (\E c \in DOMAIN connectors[k] : connectors[k][c] = " -- cond --> ")
                 <=> edges[k].conditional
       /\ matches = {} => H = {}
       /\ matches # {} =>
            /\ Cardinality(H) = 1
            /\ \A l \in H :
                 \E x \in {entry_point, ReplaceQuotes(entry_point)} :
                   def[l] = <<"  style ">> \o x \o <<EntryStyle>>
       /\ \A s \in S : \A h \in H : s < h
       /\ \A h \in H : \A e \in E : h < e
       /\ \A s \in S : \A e \in E : s < e

-----------------------------------------------------------------------------
(* Saves after a failure, and saves in flight together *)

(* C22: after a persistence call has failed, the scheduler issues no further
   persistence call on its own: while the status still shows the failure (no
   change has been signalled and no save has been asked for since it landed)
   and the last signalled change has already been sent by a PUT, a debounce
   timer that fires issues no PUT. *)
C22_NoRetryAfterFailure ==
  [][\A t \in debounceTimers :
       (statusText = "failed" /\ hist.putsSinceSignal >= 1 /\ DebounceFire(t))
         => putLog' = putLog]_vars

(* The saves of one debounce period: a change, the save button, the timer
   firing at the end of the period, and the responses, which land in any
   order (no status-clear timer is due within the period) *)
NextOverlap ==
  \/ \E v \in Names : NameInput(v) /\ DiagramIdle
  \/ ManualSave /\ DiagramIdle
  \/ \E t \in debounceTimers : DebounceFire(t) /\ DiagramIdle
  \/ \E r \in inflight : \E ok \in BOOLEAN : SaveResponse(r, ok) /\ DiagramIdle
  \/ (now < DebounceWait /\ Tick) /\ DiagramIdle

SpecOverlap == Init /\ [][NextOverlap]_vars

(* C23: a manual save and a timer save can be in flight together and their
   responses land in either order; each response that lands sets the status
   to its own outcome, so the status shown once both have landed is the
   outcome of the response that landed last, whichever request was issued
   last. *)
C23_LastLandedWins ==
  [][\A r \in inflight : \A ok \in BOOLEAN :
       (currentId # NoWorkflow /\ SaveResponse(r, ok))
         => statusText' = (IF ok THEN "saved" ELSE "failed")]_vars

(* Witness of C23: a manual save and a timer save were in flight together,
   the one issued last has landed first and failed, and the one issued first
   is still to land *)
C23_Witness ==
  /\ Len(putLog) = 2
  /\ putLog[1].by = "manual"
  /\ putLog[2].by = "timer"
  /\ \E r \in inflight : r.seq = 1
  /\ Cardinality(inflight) = 1
  /\ statusText = "failed"

-----------------------------------------------------------------------------
(* Saves and the workflow that is current when they act *)

(* C24: a timer save persists the edits that armed it.  The timer's save
   takes the workflow id and the payload from the model as it is when the
   timer fires, so a workflow (re)loaded while a signalled change still waits
   for its timer must leave both as they were: the id stays W's and the
   payload stays W's model as edited. *)
C24_TimerSavesItsEdits ==
  [][\A id \in WorkflowIds : \A data \in ServerCopies(id) :
       (/\ currentId # NoWorkflow
        /\ timeout \in debounceTimers
        /\ hist.putsSinceSignal = 0
        /\ LoadWorkflowDetail(id, TRUE, data))
         => (currentId' = currentId /\ Payload' = Payload)]_vars

(* Renaming a workflow: the name is typed, the save button pressed, and the
   workflow is reloaded (or the load fails and the editor is emptied) before
   or after the response lands *)
NextRename ==
  \/ \E v \in Names : NameInput(v) /\ DiagramIdle
  \/ ManualSave /\ DiagramIdle
  \/ \E r \in inflight : \E ok \in BOOLEAN : SaveResponse(r, ok) /\ DiagramIdle
  \/ \E id \in WorkflowIds : \E ok \in BOOLEAN : \E data \in ServerCopies(id) :
       LoadWorkflowDetail(id, ok, data) /\ DiagramIdle
  \/ (now < DebounceWait /\ Tick) /\ DiagramIdle

SpecRename == Init /\ [][NextRename]_vars

(* C25: when the save of workflow W with a changed name lands successfully,
   the name in the workflow list is updated for the entry with W's id (the
   id the PUT was sent to) and for no other entry, and the status becomes
   SAVED, whatever the current workflow is by then. *)
C25_RenameLandsOnSavedWorkflow ==
  [][\A r \in inflight :
       (r.oldName # r.newName /\ SaveResponse(r, TRUE))
         => /\ statusText' = "saved"
            /\ workflows' = [workflows EXCEPT ![putLog[r.seq].id] = r.newName]]_vars

-----------------------------------------------------------------------------
(* Renaming a node to the id it already has *)

(* C27: renameNode(A, A), the new id being equal to the old id, leaves the
   model unchanged: the nodes, the edges, the entry point and the prompts and
   scripts entries, the one keyed A with its text among them, are what they
   were. *)
C27_RenameToSelfIsIdentity ==
  [][\A i \in DOMAIN nodes :
       (nodes[i].id # EMPTY /\ RenameNode(i, nodes[i].id))
         => UNCHANGED <<nodes, edges, entry_point, final_output_key,
                        prompts, scripts>>]_vars

-----------------------------------------------------------------------------
(* The diagram pane.  renderGraph writes the placeholder at once when there
   is no node; otherwise it awaits mermaid.render and writes the pane when
   that call completes, so the renders started by successive handlers are
   outstanding together and complete in any order. *)

MaxRenders == 2

(* mermaid.render is called for definition: the call is outstanding *)
NewRender(definition) ==
  [n |-> CHOOSE k \in 1..MaxRenders : \A r \in renders : r.n # k,
   definition |-> definition]

(* renderGraph as called at the end of a handler, on the config the handler
   leaves *)
RenderGraphCall ==
  IF currentId' = NoWorkflow
  THEN UNCHANGED viewVars
  ELSE LET p == RenderGraph(nodes', edges', entry_point')
       IN IF ~p.engineCalled
          THEN /\ graphContainer' = <<"placeholder">>
               /\ UNCHANGED renders
          ELSE /\ Cardinality(renders) < MaxRenders
               /\ renders' = renders \cup {NewRender(p.definition)}
               /\ UNCHANGED graphContainer

(* the outstanding call r completes: with the svg, or by throwing *)
RenderDone(r, ok) ==
  /\ r \in renders
  /\ renders' = renders \ {r}
  /\ graphContainer' = IF ok THEN <<"svg", r.definition>> ELSE <<"error">>
  /\ UNCHANGED <<currentId, workflows, name, nameInput, graphVars, now,
                 saveVars, hist>>

(* Editing the nodes while the diagram is drawn *)
NextRender ==
  \/ AddNode /\ RenderGraphCall
  \/ \E i \in DOMAIN nodes : RemoveNode(i) /\ RenderGraphCall
  \/ \E i \in FirstRow(nodes) : \E t \in NodeTypes : SetNodeKind(i, t) /\ RenderGraphCall
  \/ \E r \in renders : \E ok \in BOOLEAN : RenderDone(r, ok)

SpecRender == Init /\ [][NextRender]_vars

(* C26: once all outstanding renders have completed, the pane shows the
   projection of the latest model state: the placeholder when there is no
   node, and otherwise the engine's output (or its failure) for the diagram
   text of the current config; a render started for an older state has not
   overwritten it. *)
C26_PaneShowsLatest ==
  renders = {} =>
    graphContainer \in (IF Projection.engineCalled
                        THEN {<<"svg", Projection.definition>>, <<"error">>}
                        ELSE {<<"placeholder">>})

====
